---- MODULE Spec2Model ----
(***************************************************************************)
(* State-machine model of tmh_tarot_scraper.py: the title matcher, the     *)
(* filename token deriver, the asset URL extractor, the nearest-image      *)
(* resolver, the paragraph collector, the page parser and the pipeline     *)
(* driver.  Text is modelled character by character (TLA+ strings with     *)
(* Len, SubSeq and \o); a parsed page is its node list in document order   *)
(* with parent pointers.                                                   *)
(***************************************************************************)
EXTENDS Integers, Sequences, FiniteSets, TLC

VARIABLES
    \* one call of card_filename_tokens: position, arguments, return value
    tok_pc, tok_title, tok_suit, tok_out,
    \* one call of parse_card_page: position, the markup the site serves (as the
    \* parameters of the page), the parsed page, and the locals title_nodes, results
    pg_pc, pg_site, soup, title_nodes, results,
    \* one call of nearest_card_image_url: position, arguments, return value
    rs_pc, rs_page, rs_el, rs_text, rs_suit, rs_out,
    \* main: position, the section the loop is at, rows, what was printed, the
    \* time slept so far, the time of each page fetch, what each section served
    \* and how it ended, and the rows of the tabular export
    pc, sec_i, rows, log, clock, fetch_at, served, outcome, csv

tokVars == <<tok_pc, tok_title, tok_suit, tok_out>>
pageVars == <<pg_pc, pg_site, soup, title_nodes, results>>
rsVars == <<rs_pc, rs_page, rs_el, rs_text, rs_suit, rs_out>>
mainVars == <<pc, sec_i, rows, log, clock, fetch_at, served, outcome, csv>>
vars == <<tokVars, pageVars, rsVars, mainVars>>

(***************************************************************************)
(* Python str / re primitives used by the program.                         *)
(***************************************************************************)
Ch(s, i) == SubSeq(s, i, i)
Drop(s, n) == SubSeq(s, n + 1, Len(s))
Take(s, n) == SubSeq(s, 1, IF n < Len(s) THEN n ELSE Len(s))

UPPER == "ABCDEFGHIJKLMNOPQRSTUVWXYZ"
LOWER == "abcdefghijklmnopqrstuvwxyz"
DIGITS == "0123456789"

UpperChars == {Ch(UPPER, i) : i \in 1..Len(UPPER)}
LowerChars == {Ch(LOWER, i) : i \in 1..Len(LOWER)}
DigitChars == {Ch(DIGITS, i) : i \in 1..Len(DIGITS)}
ToLower == [c \in UpperChars |-> Ch(LOWER, CHOOSE i \in 1..Len(UPPER) : Ch(UPPER, i) = c)]
ToUpper == [c \in LowerChars |-> Ch(UPPER, CHOOSE i \in 1..Len(LOWER) : Ch(LOWER, i) = c)]

IsUpperCh(c) == c \in UpperChars
IsLowerCh(c) == c \in LowerChars
IsAlphaCh(c) == IsUpperCh(c) \/ IsLowerCh(c)
IsDigitCh(c) == c \in DigitChars
\* \w of the re module
IsWordCh(c) == IsAlphaCh(c) \/ IsDigitCh(c) \/ c = "_"
\* \s of the re module, and what str.strip() removes
IsSpaceCh(c) == c \in {" ", "\t", "\n", "\r", "\f"}

LowerCh(c) == IF IsUpperCh(c) THEN ToLower[c] ELSE c
UpperCh(c) == IF IsLowerCh(c) THEN ToUpper[c] ELSE c

\* str.lower()
RECURSIVE str_lower(_)
str_lower(s) ==
    IF s = "" THEN "" ELSE LowerCh(Ch(s, 1)) \o str_lower(Drop(s, 1))

\* str.title(): a letter that follows a letter is lowered, any other letter raised
RECURSIVE title_from(_, _)
title_from(s, prevCased) ==
    IF s = "" THEN ""
    ELSE LET c == Ch(s, 1)
         IN (IF IsAlphaCh(c)
             THEN (IF prevCased THEN LowerCh(c) ELSE UpperCh(c))
             ELSE c) \o title_from(Drop(s, 1), IsAlphaCh(c))
str_title(s) == title_from(s, FALSE)

\* str.strip()
RECURSIVE lstrip(_)
lstrip(s) ==
    IF s # "" /\ IsSpaceCh(Ch(s, 1)) THEN lstrip(Drop(s, 1)) ELSE s
RECURSIVE rstrip(_)
rstrip(s) ==
    IF s # "" /\ IsSpaceCh(Ch(s, Len(s))) THEN rstrip(Take(s, Len(s) - 1)) ELSE s
str_strip(s) == rstrip(lstrip(s))

\* str.replace(old, "") for a one-character old
RECURSIVE remove_ch(_, _)
remove_ch(s, c) ==
    IF s = "" THEN ""
    ELSE (IF Ch(s, 1) = c THEN "" ELSE Ch(s, 1)) \o remove_ch(Drop(s, 1), c)

\* sub in s
Contains(s, sub) ==
    \E i \in 1..(Len(s) - Len(sub) + 1) : SubSeq(s, i, i + Len(sub) - 1) = sub
StartsWith(s, p) == Len(p) <= Len(s) /\ Take(s, Len(p)) = p
EndsWith(s, p) == Len(p) <= Len(s) /\ Drop(s, Len(s) - Len(p)) = p

\* a literal of a pattern at position pos of s; ci is the re.I flag
LitAt(s, pos, lit, ci) ==
    /\ pos + Len(lit) - 1 <= Len(s)
    /\ LET sub == SubSeq(s, pos, pos + Len(lit) - 1)
       IN IF ci THEN str_lower(sub) = str_lower(lit) ELSE sub = lit

\* \s* from pos: the position of the first character that is not whitespace
RECURSIVE SkipSpaces(_, _)
SkipSpaces(s, pos) ==
    IF pos <= Len(s) /\ IsSpaceCh(Ch(s, pos)) THEN SkipSpaces(s, pos + 1) ELSE pos

\* \w* from pos: the position of the first character that is not a word character
RECURSIVE SkipWord(_, _)
SkipWord(s, pos) ==
    IF pos <= Len(s) /\ IsWordCh(Ch(s, pos)) THEN SkipWord(s, pos + 1) ELSE pos

\* re.sub(r"\s+", " ", s)
RECURSIVE collapse_ws(_)
collapse_ws(s) ==
    IF s = "" THEN ""
    ELSE IF IsSpaceCh(Ch(s, 1))
         THEN " " \o collapse_ws(Drop(s, SkipSpaces(s, 1) - 1))
         ELSE Ch(s, 1) \o collapse_ws(Drop(s, 1))

(***************************************************************************)
(* Configuration.                                                          *)
(***************************************************************************)
BASE == "https://www.thismighthurttarot.com"

\* PAGES, in insertion order
Sections == <<"Major Arcana", "Wands", "Cups", "Swords", "Pentacles">>
PAGES ==
    [s \in {Sections[k] : k \in DOMAIN Sections} |->
        CASE s = "Major Arcana" -> "/majorarcana"
          [] s = "Wands" -> "/wands"
          [] s = "Cups" -> "/cups"
          [] s = "Swords" -> "/swords"
          [] s = "Pentacles" -> "/pentacles"]

\* NUMERIC_RANK with an entry for Ace; the token deriver must differ under it
NUMERIC_RANK_with_ace ==
    ("Ace" :> "1") @@ ("Two" :> "2") @@ ("Three" :> "3") @@ ("Four" :> "4") @@
    ("Five" :> "5") @@ ("Six" :> "6") @@ ("Seven" :> "7") @@ ("Eight" :> "8") @@
    ("Nine" :> "9") @@ ("Ten" :> "10")

NUMERIC_RANK ==
    ("Two" :> "2") @@ ("Three" :> "3") @@ ("Four" :> "4") @@ ("Five" :> "5") @@
    ("Six" :> "6") @@ ("Seven" :> "7") @@ ("Eight" :> "8") @@ ("Nine" :> "9") @@
    ("Ten" :> "10")

(***************************************************************************)
(* Title patterns.                                                         *)
(***************************************************************************)
MAJORS ==
    <<"The Fool", "The Magician", "The High Priestess", "The Empress",
      "The Emperor", "The Hierophant", "The Lovers", "The Chariot", "Strength",
      "The Hermit", "The Wheel of Fortune", "Justice", "The Hanged Man", "Death",
      "Temperance", "The Devil", "The Tower", "The Star", "The Moon", "The Sun",
      "Judgement", "The World">>
RANKS ==
    <<"Ace", "Two", "Three", "Four", "Five", "Six", "Seven", "Eight", "Nine",
      "Ten", "Page", "Knight", "Queen", "King">>

RANKS_lower == [k \in DOMAIN RANKS |-> str_lower(RANKS[k])]
MAJORS_lower == [k \in DOMAIN MAJORS |-> str_lower(MAJORS[k])]
LongestRank == Len("Knight")

\* (Ace|Two|...|King) at the start of s: the index of the first alternative
\* that matches, 0 when none does; ci is the re.I flag
RankAt(s, ci) ==
    LET head == IF ci THEN str_lower(Take(s, LongestRank)) ELSE Take(s, LongestRank)
        alts == IF ci THEN RANKS_lower ELSE RANKS
    IN IF \E k \in DOMAIN alts : StartsWith(head, alts[k])
       THEN CHOOSE k \in DOMAIN alts :
               /\ StartsWith(head, alts[k])
               /\ \A j \in 1..(k - 1) : ~StartsWith(head, alts[j])
       ELSE 0

\* ^(Ace|...|King)\s+of\s+ with re.I: where the match ends, 0 when s does not match
RankOfPrefix(s) ==
    LET k == RankAt(s, TRUE)
    IN IF k = 0 THEN 0
       ELSE LET p1 == 1 + Len(RANKS[k])
                p2 == SkipSpaces(s, p1)
                p3 == p2 + 2
                p4 == SkipSpaces(s, p3)
            IN IF p2 > p1 /\ LitAt(s, p2, "of", TRUE) /\ p4 > p3 THEN p4 ELSE 0

\* title_regex_for(suit_arcana).fullmatch(txt)
title_regex_for(suit_arcana, txt) ==
    IF suit_arcana = "Major Arcana"
    THEN \E k \in DOMAIN MAJORS :
            Len(txt) = Len(MAJORS[k]) /\ str_lower(txt) = MAJORS_lower[k]
    ELSE LET p == RankOfPrefix(txt)
         IN /\ p # 0
            /\ Len(txt) - p + 1 = Len(suit_arcana)
            /\ str_lower(Drop(txt, p - 1)) = str_lower(suit_arcana)

\* title_regex_for(suit_arcana).search(txt): ^ is the start, $ the end or the
\* place before a final newline
title_search(suit_arcana, txt) ==
    \/ title_regex_for(suit_arcana, txt)
    \/ /\ EndsWith(txt, "\n")
       /\ title_regex_for(suit_arcana, Take(txt, Len(txt) - 1))

looks_like_subtitle(txt, suit_arcana) ==
    IF txt = "" THEN FALSE
    ELSE IF title_search(suit_arcana, txt) THEN FALSE
    ELSE 3 <= Len(txt) /\ Len(txt) <= 60 /\ IsUpperCh(Ch(txt, 1))

(***************************************************************************)
(* Filename Token Deriver.                                                 *)
(***************************************************************************)
card_filename_tokens(title_text, suit_arcana) ==
    LET title == str_strip(title_text)
        toks ==
            IF suit_arcana = "Major Arcana"
            THEN LET p == SkipSpaces(title, 4)
                     base == IF LitAt(title, 1, "The", TRUE) /\ p > 4
                             THEN Drop(title, p - 1) ELSE title
                 IN <<remove_ch(base, " "), remove_ch(title, " ")>>
            ELSE LET p == RankOfPrefix(title)
                     q == IF p = 0 THEN 0 ELSE SkipWord(title, p)
                 IN IF p = 0 \/ q = p THEN <<>>
                    ELSE LET rank == str_title(Take(title, Len(RANKS[RankAt(title, TRUE)])))
                             suit == str_title(SubSeq(title, p, q - 1))
                         IN <<rank \o "Of" \o suit>> \o
                            (IF rank \in DOMAIN NUMERIC_RANK
                             THEN <<NUMERIC_RANK[rank] \o "of" \o suit>>
                             ELSE <<>>)
    IN [k \in DOMAIN toks |-> str_lower(toks[k])]

(***************************************************************************)
(* Parsed markup.  A page is the list of its nodes in document order; a    *)
(* node names its parent by position (0: the BeautifulSoup object itself). *)
(* An attribute that is absent is the empty string: the program skips an   *)
(* empty value wherever it reads one.  ns is the literal content of a      *)
(* noscript element, as the img elements it parses into.  last is the      *)
(* position of the last node of the subtree (the node itself for a leaf).  *)
(***************************************************************************)
Node(tag, parent) ==
    [tag |-> tag, parent |-> parent, text |-> "", href |-> "", src |-> "",
     dsrc |-> "", dimg |-> "", srcset |-> "", style |-> "", ns |-> <<>>,
     id |-> "", cls |-> "", last |-> 0]
Text(parent, text) == [Node("#text", parent) EXCEPT !.text = text]
Img(parent, src) == [Node("img", parent) EXCEPT !.src = src]

Idx(page) == [k \in 1..Len(page) |-> k]
IsTag(page, i) == page[i].tag # "#text"

RECURSIVE ChainHolds(_, _, _)
ChainHolds(nodes, a, d) ==
    IF d = 0 THEN FALSE
    ELSE nodes[d].parent = a \/ ChainHolds(nodes, a, nodes[d].parent)

\* the tree of a node list: every node's last is set from the parent pointers
Tree(nodes) ==
    [i \in DOMAIN nodes |->
        [nodes[i] EXCEPT !.last =
            IF \E d \in DOMAIN nodes : ChainHolds(nodes, i, d)
            THEN CHOOSE d \in DOMAIN nodes :
                    /\ ChainHolds(nodes, i, d)
                    /\ \A e \in (d + 1)..Len(nodes) : ~ChainHolds(nodes, i, e)
            ELSE i]]

\* a is an ancestor of d (0, the document, of every node)
IsAncestor(page, a, d) == a = 0 \/ (a < d /\ d <= page[a].last)

\* el.find_all(True): the elements under el, in document order
TagsUnder(page, el) ==
    SelectSeq(Idx(page), LAMBDA i : IsTag(page, i) /\ IsAncestor(page, el, i))

\* el.find_all(names)
find_all(page, el, names) ==
    SelectSeq(Idx(page), LAMBDA i : page[i].tag \in names /\ IsAncestor(page, el, i))

RECURSIVE JoinWith(_, _)
JoinWith(parts, sep) ==
    IF parts = <<>> THEN ""
    ELSE IF Len(parts) = 1 THEN parts[1]
    ELSE parts[1] \o sep \o JoinWith(Tail(parts), sep)

\* el.get_text(separator=" ", strip=True): the strings under el, each stripped,
\* the empty ones dropped
get_text(page, el) ==
    LET strs == SelectSeq(Idx(page), LAMBDA i :
                    /\ ~IsTag(page, i)
                    /\ IsAncestor(page, el, i)
                    /\ str_strip(page[i].text) # "")
    IN JoinWith([k \in DOMAIN strs |-> str_strip(page[strs[k]].text)], " ")

\* el.find_parent(names): the nearest ancestor of that kind, 0 when there is none
RECURSIVE find_parent(_, _, _)
find_parent(page, el, names) ==
    LET p == page[el].parent
    IN IF p = 0 THEN 0
       ELSE IF page[p].tag \in names THEN p
       ELSE find_parent(page, p, names)

\* soup.select_one("main, article, .sqs-layout, #content, #page, body"): the
\* first element in document order that any of the selectors matches
Selected(page, i) ==
    /\ IsTag(page, i)
    /\ \/ page[i].tag \in {"main", "article", "body"}
       \/ page[i].cls = "sqs-layout"
       \/ page[i].id \in {"content", "page"}
select_content(page) ==
    IF \E i \in DOMAIN page : Selected(page, i)
    THEN CHOOSE i \in DOMAIN page :
            Selected(page, i) /\ \A j \in 1..(i - 1) : ~Selected(page, j)
    ELSE 0

(***************************************************************************)
(* Text Normalizer.                                                        *)
(***************************************************************************)
RECURSIVE lstrip_blanks(_)
lstrip_blanks(s) ==
    IF s # "" /\ Ch(s, 1) \in {" ", "\t"} THEN lstrip_blanks(Drop(s, 1)) ELSE s

\* re.sub(r"[ \t]+", " ", s)
RECURSIVE collapse_blanks(_)
collapse_blanks(s) ==
    IF s = "" THEN ""
    ELSE IF Ch(s, 1) \in {" ", "\t"}
         THEN " " \o collapse_blanks(lstrip_blanks(s))
         ELSE Ch(s, 1) \o collapse_blanks(Drop(s, 1))

\* the last newline of the whitespace run s[from..to], 0 when it holds none
LastNewline(s, from, to) ==
    IF \E k \in from..to : Ch(s, k) = "\n"
    THEN CHOOSE k \in from..to :
            Ch(s, k) = "\n" /\ \A j \in (k + 1)..to : Ch(s, j) # "\n"
    ELSE 0

\* re.sub(r"\s+\n", "\n", s): a whitespace run of two or more characters that
\* ends in a newline becomes that newline
RECURSIVE drop_ws_before_newline(_)
drop_ws_before_newline(s) ==
    IF s = "" THEN ""
    ELSE LET e == SkipSpaces(s, 1) - 1
             k == LastNewline(s, 2, e)
         IN IF k # 0
            THEN "\n" \o drop_ws_before_newline(Drop(s, k))
            ELSE Ch(s, 1) \o drop_ws_before_newline(Drop(s, 1))

text_clean(s) == str_strip(drop_ws_before_newline(collapse_blanks(s)))

(***************************************************************************)
(* Asset URL Extractor.                                                    *)
(***************************************************************************)
\* str.split(sep) for a one-character sep
RECURSIVE split_on(_, _)
split_on(s, sep) ==
    IF ~Contains(s, sep) THEN <<s>>
    ELSE LET k == CHOOSE k \in 1..Len(s) :
                     Ch(s, k) = sep /\ \A j \in 1..(k - 1) : Ch(s, j) # sep
         IN <<Take(s, k - 1)>> \o split_on(Drop(s, k), sep)

RECURSIVE Flatten(_)
Flatten(seqs) ==
    IF seqs = <<>> THEN <<>> ELSE Head(seqs) \o Flatten(Tail(seqs))

NonEmpty(strs) == SelectSeq(strs, LAMBDA u : u # "")

\* [p.strip().split(" ")[0] for p in img["srcset"].split(",") if p.strip()]
srcset_urls(srcset) ==
    LET parts == SelectSeq(split_on(srcset, ","), LAMBDA q : str_strip(q) # "")
    IN [k \in DOMAIN parts |-> split_on(str_strip(parts[k]), " ")[1]]

\* [^)'"]* from pos: the position of the first ), ' or "
RECURSIVE SkipUrlChars(_, _)
SkipUrlChars(s, pos) ==
    IF pos <= Len(s) /\ Ch(s, pos) \notin {")", "'", "\""}
    THEN SkipUrlChars(s, pos + 1) ELSE pos

\* ['"]? at pos: the position after the optional quote
SkipQuote(s, pos) ==
    IF pos <= Len(s) /\ Ch(s, pos) \in {"'", "\""} THEN pos + 1 ELSE pos

\* background-image\s*:\s*url\(['"]?([^)'"]+)['"]?\) with re.I, matched at
\* position i of the style: group 1, "" when the pattern does not match there.
\* The pattern is followed piece by piece: the group from p4 to p5, ...
bg_group(style, p4, p5) ==
    IF p5 > p4 /\ LitAt(style, SkipQuote(style, p5), ")", FALSE)
    THEN SubSeq(style, p4, p5 - 1) ELSE ""
bg_quote(style, p4) == bg_group(style, p4, SkipUrlChars(style, p4))
bg_func(style, p2) ==
    IF LitAt(style, p2, "url(", TRUE) THEN bg_quote(style, SkipQuote(style, p2 + 4)) ELSE ""
bg_colon(style, p1) ==
    IF LitAt(style, p1, ":", FALSE) THEN bg_func(style, SkipSpaces(style, p1 + 1)) ELSE ""
bg_url_at(style, i) ==
    IF LitAt(style, i, "background-image", TRUE)
    THEN bg_colon(style, SkipSpaces(style, i + Len("background-image"))) ELSE ""

FirstNonEmpty(strs) ==
    IF \E i \in DOMAIN strs : strs[i] # ""
    THEN strs[CHOOSE i \in DOMAIN strs :
            strs[i] # "" /\ \A j \in 1..(i - 1) : strs[j] = ""]
    ELSE ""

\* re.search of that pattern: group 1 of the leftmost match, "" when none
bg_url(style) == FirstNonEmpty([i \in 1..Len(style) |-> bg_url_at(style, i)])

IMG_EXT == {".jpg", ".jpeg", ".png", ".webp", ".gif"}
has_img_ext(low) == \E e \in IMG_EXT : EndsWith(low, e)

\* urljoin(BASE, u) for the forms a reference takes: absolute, scheme-relative,
\* rooted, or relative to the site root
urljoin(base, u) ==
    IF StartsWith(str_lower(u), "http://") \/ StartsWith(str_lower(u), "https://") THEN u
    ELSE IF StartsWith(u, "//") THEN "https:" \o u
    ELSE IF StartsWith(u, "/") THEN base \o u
    ELSE base \o "/" \o u

\* the test of the "normalize & filter" loop on one URL u, cut at its "?"
keeps_url(u, low) ==
    /\ u # ""
    /\ \A bad \in {"logo", "header", "favicon", "sprite"} : ~Contains(low, bad)
    /\ (has_img_ext(low) \/ Contains(low, "/images/"))

based_urls(urls) == [k \in DOMAIN urls |-> split_on(urls[k], "?")[1]]

kept_urls(urls, based) ==
    SelectSeq(Idx(urls), LAMBDA k : keeps_url(urls[k], str_lower(based[k])))

joined_urls(based, keep) == [k \in DOMAIN keep |-> urljoin(BASE, based[keep[k]])]

clean_with(urls, based) == joined_urls(based, kept_urls(urls, based))

\* the "normalize & filter" loop
clean_urls(urls) == clean_with(urls, based_urls(urls))

anchor_hrefs(page, anchors) == [k \in DOMAIN anchors |-> page[anchors[k]].href]

\* data-src, data-image, src, then the srcset entries of one img
img_attr_urls(img) ==
    NonEmpty(<<img.dsrc, img.dimg, img.src>>) \o srcset_urls(img.srcset)
img_urls(page, imgs) == Flatten([k \in DOMAIN imgs |-> img_attr_urls(page[imgs[k]])])

style_urls(page, all) == NonEmpty([k \in DOMAIN all |-> bg_url(page[all[k]].style)])

\* src, data-src, data-image of the img elements a noscript content parses into
noscript_img_urls(ns) ==
    Flatten([j \in DOMAIN ns |-> NonEmpty(<<ns[j].src, ns[j].dsrc, ns[j].dimg>>)])
noscript_urls(page, noscripts) ==
    Flatten([k \in DOMAIN noscripts |-> noscript_img_urls(page[noscripts[k]].ns)])

\* the URLs the four harvesting loops append, in order
harvested_urls(page, el) ==
    anchor_hrefs(page, find_all(page, el, {"a"}))
    \o img_urls(page, find_all(page, el, {"img"}))
    \o style_urls(page, TagsUnder(page, el))
    \o noscript_urls(page, find_all(page, el, {"noscript"}))

_extract_img_url_from(page, el) == clean_urls(harvested_urls(page, el))

(***************************************************************************)
(* Nearest-Image Resolver.                                                 *)
(***************************************************************************)
\* the bounded search region of a title
region_or_parent(page, title_el, b) == IF b # 0 THEN b ELSE page[title_el].parent
boundary_of(page, title_el) ==
    region_or_parent(page, title_el,
                     find_parent(page, title_el, {"section", "article", "main"}))

\* nodes.index(x), and len(nodes) // 2 when nodes does not hold x
index_in(nodes, x) ==
    IF \E k \in DOMAIN nodes : nodes[k] = x
    THEN (CHOOSE k \in DOMAIN nodes : nodes[k] = x) - 1
    ELSE Len(nodes) \div 2

title_index(page, title_el) ==
    index_in(TagsUnder(page, boundary_of(page, title_el)), title_el)

\* urls without the repeats and without what found holds, in order
fresh_urls(urls, found) ==
    SelectSeq(Idx(urls), LAMBDA j :
        /\ \A c \in DOMAIN found : found[c].url # urls[j]
        /\ \A h \in 1..(j - 1) : urls[h] # urls[j])

new_candidates(idx, urls, fresh) ==
    [j \in DOMAIN fresh |-> [idx |-> idx, url |-> urls[fresh[j]]]]

add_candidates(idx, urls, found) ==
    found \o new_candidates(idx, urls, fresh_urls(urls, found))

\* the harvest loop: (idx, url) for each URL at the first node that yields it
RECURSIVE harvest(_, _, _, _)
harvest(page, nodes, k, found) ==
    IF k > Len(nodes) THEN found
    ELSE harvest(page, nodes, k + 1,
            add_candidates(k - 1, _extract_img_url_from(page, nodes[k]), found))

candidates_of(page, title_el) ==
    harvest(page, TagsUnder(page, boundary_of(page, title_el)), 1, <<>>)

token_hits(ul, tokens) == Cardinality({k \in DOMAIN tokens : Contains(ul, tokens[k])})

token_score_lower(ul, tokens) ==
    20 * token_hits(ul, tokens)
    + (IF \E m \in {"_forweb", "forweb", "/images/"} : Contains(ul, m) THEN 2 ELSE 0)
    + (IF has_img_ext(ul) THEN 1 ELSE 0)

token_score(u, tokens) == token_score_lower(str_lower(u), tokens)

\* score with the token score left out of the key; the resolver must differ under it
score_without_tokens(idx, u, title_idx, tokens) ==
    <<IF idx < title_idx THEN 10 ELSE 0,
      IF idx >= title_idx THEN title_idx - idx ELSE idx - title_idx,
      0>>

\* (before_bonus, -distance, sc)
score(idx, u, title_idx, tokens) ==
    <<IF idx < title_idx THEN 10 ELSE 0,
      IF idx >= title_idx THEN title_idx - idx ELSE idx - title_idx,
      token_score(u, tokens)>>

\* tuple comparison
TupleLess(a, b) ==
    \E k \in DOMAIN a : a[k] < b[k] /\ \A j \in 1..(k - 1) : a[j] = b[j]

\* sorted(candidates, key=score, reverse=True)[0]: the sort is stable, so of
\* the candidates with the greatest key the first one harvested
first_greatest(keys) ==
    CHOOSE k \in DOMAIN keys :
        /\ \A j \in DOMAIN keys : ~TupleLess(keys[k], keys[j])
        /\ \A j \in 1..(k - 1) : TupleLess(keys[j], keys[k])

best_url(cands, title_idx, tokens) ==
    IF cands = <<>> THEN ""
    ELSE cands[first_greatest(
            [k \in DOMAIN cands |->
                score(cands[k].idx, cands[k].url, title_idx, tokens)])].url

\* "" stands for None
nearest_card_image_url(page, title_el, title_text, suit_arcana) ==
    best_url(candidates_of(page, title_el), title_index(page, title_el),
             card_filename_tokens(title_text, suit_arcana))

(***************************************************************************)
(* Paragraph Collector.                                                    *)
(***************************************************************************)
\* cur.find_next(): the next element in document order, 0 at the end
find_next(page, cur) ==
    IF \E i \in (cur + 1)..Len(page) : IsTag(page, i)
    THEN CHOOSE i \in (cur + 1)..Len(page) :
            IsTag(page, i) /\ \A j \in (cur + 1)..(i - 1) : ~IsTag(page, j)
    ELSE 0

RECURSIVE walk_paragraphs(_, _, _, _)
walk_paragraphs(page, cur, suit_arcana, desc) ==
    LET nxt == find_next(page, cur)
    IN IF nxt = 0 THEN desc
       ELSE LET txt == get_text(page, nxt)
            IN IF txt # "" /\ title_search(suit_arcana, txt) THEN desc
               ELSE walk_paragraphs(page, nxt, suit_arcana,
                        IF page[nxt].tag = "p" /\ txt # ""
                        THEN Append(desc, txt) ELSE desc)

collect_paragraphs(page, start_node, suit_arcana) ==
    walk_paragraphs(page, start_node, suit_arcana, <<>>)

(***************************************************************************)
(* Page Parser.                                                            *)
(***************************************************************************)
SCANNED == {"a", "h1", "h2", "h3", "h4", "strong", "div"}

\* the test that makes an element a title candidate
is_title_el(page, suit_arcana, el) ==
    LET txt == get_text(page, el)
    IN txt # "" /\ title_regex_for(suit_arcana, txt)

\* the child_match loop: some element under el matches as well
child_match(page, suit_arcana, el) ==
    \E c \in DOMAIN page :
        /\ IsTag(page, c) /\ IsAncestor(page, el, c)
        /\ is_title_el(page, suit_arcana, c)

find_title_nodes(page, suit_arcana) ==
    SelectSeq(find_all(page, select_content(page), SCANNED), LAMBDA el :
        is_title_el(page, suit_arcana, el) /\ ~child_match(page, suit_arcana, el))

\* title_el.find_next(string=...): the first string after title_el in document
\* order that is not blank, 0 when there is none
next_text_el(page, title_el) ==
    IF \E i \in (title_el + 1)..Len(page) : ~IsTag(page, i) /\ str_strip(page[i].text) # ""
    THEN CHOOSE i \in (title_el + 1)..Len(page) :
            /\ ~IsTag(page, i) /\ str_strip(page[i].text) # ""
            /\ \A j \in (title_el + 1)..(i - 1) :
                  IsTag(page, j) \/ str_strip(page[j].text) = ""
    ELSE 0

\* cand of the loop body, "" when no string follows
subtitle_cand(page, title_el) ==
    LET n == next_text_el(page, title_el)
    IN IF n = 0 THEN "" ELSE str_strip(page[n].text)

raw_strings(page, strs) == [k \in DOMAIN strs |-> page[strs[k]].text]

\* el.get_text(): the strings under el as they are, joined without separator
get_text_raw(page, el) ==
    JoinWith(raw_strings(page, SelectSeq(Idx(page), LAMBDA i :
                ~IsTag(page, i) /\ IsAncestor(page, el, i))), "")

\* title_text_of over the unstripped strings; the parser must differ under it
title_text_of_raw(page, title_el) == collapse_ws(get_text_raw(page, title_el))

title_text_of(page, title_el) == collapse_ws(get_text(page, title_el))

card_record(page, suit_arcana, title_el) ==
    LET title_text == title_text_of(page, title_el)
        cand == subtitle_cand(page, title_el)
    IN [suit_arcana |-> suit_arcana,
        card |-> title_text,
        subtitle |-> IF looks_like_subtitle(cand, suit_arcana) THEN cand ELSE "",
        description |->
            text_clean(JoinWith(collect_paragraphs(page, title_el, suit_arcana), "\n\n")),
        image_url |-> nearest_card_image_url(page, title_el, title_text, suit_arcana),
        page_url |-> urljoin(BASE, PAGES[suit_arcana])]

\* what parse_card_page returns for a fetched page
parse_card_page(suit_arcana, page) ==
    LET nodes == find_title_nodes(page, suit_arcana)
    IN [k \in DOMAIN nodes |-> card_record(page, suit_arcana, nodes[k])]

(***************************************************************************)
(* Title texts used as inputs: the k-th rank or major name of a section,   *)
(* written in one of several styles.                                       *)
(***************************************************************************)
Styles == {"canon", "lower", "upper", "wide", "padded"}

RECURSIVE str_upper(_)
str_upper(s) ==
    IF s = "" THEN "" ELSE UpperCh(Ch(s, 1)) \o str_upper(Drop(s, 1))

\* every blank of s written twice
RECURSIVE widen(_)
widen(s) ==
    IF s = "" THEN ""
    ELSE (IF Ch(s, 1) = " " THEN "  " ELSE Ch(s, 1)) \o widen(Drop(s, 1))

Restyle(canon, wide, style) ==
    CASE style = "lower" -> str_lower(canon)
      [] style = "upper" -> str_upper(canon)
      [] style = "wide" -> wide
      [] style = "padded" -> " " \o canon \o "\n"
      [] OTHER -> canon

NamesOf(section) == IF section = "Major Arcana" THEN MAJORS ELSE RANKS

TitleText(section, k, style) ==
    IF section = "Major Arcana"
    THEN Restyle(MAJORS[k], widen(MAJORS[k]), style)
    ELSE Restyle(RANKS[k] \o " of " \o section,
                 RANKS[k] \o "  of\n" \o section, style)

SectionSet == {Sections[k] : k \in DOMAIN Sections}

(***************************************************************************)
(* The markup a section page may hold: a region (main, or a plain div)     *)
(* with n card blocks, every block an image, a title and one paragraph,    *)
(* nested in one of the ways below.                                        *)
(***************************************************************************)
MaxBlocks == 2

Layouts ==
    {"flat", "wrap", "figure", "span", "anchor", "split", "subtitled", "inpara"}
Roots == {"main", "div"}
Orders == {"asc", "desc"}

\* the name (rank or major) of block j
NameIdx(order, j) == IF order = "asc" THEN j ELSE Len(RANKS) + 1 - j

DigitStr(j) == Ch(DIGITS, j + 1)
ParaText(j) == IF j = 1 THEN "About card 1." ELSE "more on card " \o DigitStr(j) \o "."
SubText(j) == "Subtitle " \o DigitStr(j)

\* the image file of a card, named as the asset host names it
ImgPath(section, k) ==
    "/art/" \o (IF section = "Major Arcana"
                THEN remove_ch(MAJORS[k], " ")
                ELSE RANKS[k] \o "Of" \o section) \o ".jpg"

FirstBlank(t) ==
    IF Contains(t, " ")
    THEN CHOOSE k \in 1..Len(t) : Ch(t, k) = " " /\ \A j \in 1..(k - 1) : Ch(t, j) # " "
    ELSE Len(t)

\* the nodes of one block whose first node is node at + 1 and whose container is P
Block(at, P, layout, title, url, j) ==
    LET fig == <<Node("div", P), Img(at + 1, url)>>
        para(parent) == Text(parent, ParaText(j))
    IN CASE layout = "flat" ->
              <<Img(P, url), Text(P, "\n  "), Node("h2", P), Text(at + 3, title),
                Text(P, "\n  "), Node("p", P), para(at + 6)>>
         [] layout = "wrap" ->
              <<Node("div", P), Img(at + 1, url), Node("h2", at + 1), Text(at + 3, title),
                Text(at + 1, "\n"), Node("p", at + 1), para(at + 6)>>
         [] layout = "figure" ->
              fig \o <<Node("h2", P), Text(at + 3, title), Node("p", P), para(at + 5)>>
         [] layout = "span" ->
              fig \o <<Node("h2", P), Node("span", at + 3), Text(at + 4, title),
                       Node("p", P), para(at + 6)>>
         [] layout = "anchor" ->
              fig \o <<Node("h2", P), [Node("a", at + 3) EXCEPT !.href = "/shop?card=1"],
                       Text(at + 4, title), Node("p", P), para(at + 6)>>
         [] layout = "split" ->
              fig \o <<Node("h2", P), Node("em", at + 3),
                       Text(at + 4, Take(title, FirstBlank(title))),
                       Text(at + 3, Drop(title, FirstBlank(title))),
                       Node("p", P), para(at + 7)>>
         [] layout = "subtitled" ->
              fig \o <<Node("h2", P), Text(at + 3, title), Node("h3", P),
                       Text(at + 5, SubText(j)), Node("p", P), para(at + 7)>>
         [] layout = "inpara" ->
              fig \o <<Node("p", P), Text(at + 3, "Next up: "), Node("strong", at + 3),
                       Text(at + 5, title), Node("p", P), para(at + 7)>>

RECURSIVE AddBlocks(_, _, _)
AddBlocks(page, site, j) ==
    IF j > site.n THEN page
    ELSE LET k == NameIdx(site.order, j)
         IN AddBlocks(page \o Block(Len(page), 3, site.layout,
                                    TitleText(site.section, k, site.style),
                                    ImgPath(site.section, k), j),
                      site, j + 1)

\* BeautifulSoup(r.text, "lxml") of the markup: html, body, the region, the blocks
MakePage(site) ==
    Tree(AddBlocks(<<Node("html", 0), Node("body", 1),
                [Node(site.root, 2) EXCEPT !.cls = IF site.root = "div" THEN "sqs-layout" ELSE ""]>>,
              site, 1))

Sites(sections, roots, layouts, styles, counts, orders) ==
    [section : sections, root : roots, layout : layouts, style : styles,
     n : counts, order : orders]

(***************************************************************************)
(* One call of parse_card_page, step by step.                              *)
(***************************************************************************)
NoSite ==
    [section |-> "Wands", root |-> "main", layout |-> "flat",
     style |-> "canon", n |-> 0, order |-> "asc"]

TokIdle ==
    /\ tok_pc = "idle" /\ tok_title = "" /\ tok_suit = "" /\ tok_out = <<>>

RsIdle ==
    /\ rs_pc = "idle" /\ rs_page = <<>> /\ rs_el = 0
    /\ rs_text = "" /\ rs_suit = "" /\ rs_out = ""

MainIdle ==
    /\ pc = "idle" /\ sec_i = 0 /\ rows = <<>> /\ log = <<>>
    /\ clock = 0 /\ fetch_at = <<>>
    /\ served = [s \in SectionSet |-> NoSite]
    /\ outcome = [s \in SectionSet |-> "pending"]
    /\ csv = <<>>

PageIdle ==
    /\ pg_pc = "idle"
    /\ pg_site = NoSite
    /\ soup = <<>>
    /\ title_nodes = <<>>
    /\ results = <<>>

PageInit ==
    /\ pg_pc = "fetch"
    /\ pg_site \in Sites(SectionSet, Roots, Layouts, Styles, 0..MaxBlocks, {"asc"})
    /\ soup = <<>>
    /\ title_nodes = <<>>
    /\ results = <<>>
    /\ TokIdle /\ RsIdle /\ MainIdle

\* soup = get_soup(url)
GetSoup ==
    /\ pg_pc = "fetch"
    /\ soup' = MakePage(pg_site)
    /\ pg_pc' = "scan"
    /\ UNCHANGED <<pg_site, title_nodes, results, tokVars, rsVars, mainVars>>

\* the scan that fills title_nodes
FindTitles ==
    /\ pg_pc = "scan"
    /\ title_nodes' = find_title_nodes(soup, pg_site.section)
    /\ pg_pc' = "emit"
    /\ UNCHANGED <<pg_site, soup, results, tokVars, rsVars, mainVars>>

\* one iteration of the loop over title_nodes
EmitCard ==
    /\ pg_pc = "emit"
    /\ Len(results) < Len(title_nodes)
    /\ results' = Append(results,
            card_record(soup, pg_site.section, title_nodes[Len(results) + 1]))
    /\ UNCHANGED <<pg_pc, pg_site, soup, title_nodes, tokVars, rsVars, mainVars>>

\* the sanity warning, the sleep and the return
ReturnResults ==
    /\ pg_pc = "emit"
    /\ Len(results) = Len(title_nodes)
    /\ pg_pc' = "returned"
    /\ UNCHANGED <<pg_site, soup, title_nodes, results, tokVars, rsVars, mainVars>>

PageNext == GetSoup \/ FindTitles \/ EmitCard \/ ReturnResults

SpecPage == PageInit /\ [][PageNext]_vars

(***************************************************************************)
(* Properties of the page parser.                                          *)
(***************************************************************************)
\* C2: every emitted record's card is the whitespace-collapsed text of its
\* title node and fully matches (anchored, case-insensitive) the title
\* pattern of the record's own suit_arcana
C2_CardMatchesTitlePattern ==
    \A k \in DOMAIN results :
        /\ results[k].suit_arcana = pg_site.section
        /\ results[k].card = collapse_ws(get_text(soup, title_nodes[k]))
        /\ title_regex_for(results[k].suit_arcana, results[k].card)

\* a title written with runs of whitespace was retained and emitted collapsed
C2_Witness ==
    /\ pg_pc = "returned" /\ pg_site.section = "Cups" /\ pg_site.style = "wide"
    /\ Len(results) = 2
    /\ results[1].card = "Ace of Cups"
    /\ get_text(soup, title_nodes[1]) = "Ace  of\nCups"

\* the first element after el whose text is a title, Len(page) + 1 when none is
NextTitleAfter(page, suit_arcana, el) ==
    LET hit(i) == /\ IsTag(page, i) /\ get_text(page, i) # ""
                  /\ title_search(suit_arcana, get_text(page, i))
    IN IF \E i \in (el + 1)..Len(page) : hit(i)
       THEN CHOOSE i \in (el + 1)..Len(page) :
               hit(i) /\ \A j \in (el + 1)..(i - 1) : ~hit(j)
       ELSE Len(page) + 1

\* the non-empty texts of the paragraphs after el and before the next title,
\* a paragraph that holds the next title left out
ParagraphsOfCard(page, suit_arcana, el) ==
    LET stop == NextTitleAfter(page, suit_arcana, el)
        ps == SelectSeq(Idx(page), LAMBDA q :
                /\ el < q /\ q < stop /\ page[q].tag = "p"
                /\ get_text(page, q) # ""
                /\ ~IsAncestor(page, q, stop))
    IN [k \in DOMAIN ps |-> get_text(page, ps[k])]

\* C6: the paragraphs collected for a title are exactly the non-empty
\* paragraphs between it and the next title, and none of them holds text of
\* the next card (a paragraph that wraps the next title is not collected)
C6_ParagraphsStopBeforeNextCard ==
    \A k \in DOMAIN results :
        results[k].description =
            text_clean(JoinWith(
                ParagraphsOfCard(soup, pg_site.section, title_nodes[k]), "\n\n"))

\* C7: a page of two blocks (image, title, one paragraph), flat in the region
\* or each block in a container of its own, yields two records in document
\* order, each with the image URL of its own block
C7_TwoBlocksPairedWithOwnImage ==
    (/\ pg_pc = "returned"
     /\ pg_site.layout \in {"flat", "wrap"}
     /\ pg_site.n = 2 /\ pg_site.style = "canon")
        => /\ Len(results) = 2
           /\ \A k \in 1..2 :
                 /\ results[k].card =
                        TitleText(pg_site.section, NameIdx(pg_site.order, k), "canon")
                 /\ results[k].image_url =
                        urljoin(BASE, ImgPath(pg_site.section, NameIdx(pg_site.order, k)))

\* the first string after the subtree of el that is not blank, "" when none is
TextAfter(page, el) ==
    LET hit(i) == ~IsTag(page, i) /\ str_strip(page[i].text) # ""
        from == page[el].last + 1
    IN IF \E i \in from..Len(page) : hit(i)
       THEN str_strip(page[CHOOSE i \in from..Len(page) :
               hit(i) /\ \A j \in from..(i - 1) : ~hit(j)].text)
       ELSE ""

\* C8: the subtitle of a record is the first non-empty text after the title
\* element's own text when that text passes looks_like_subtitle, and empty
\* otherwise; the title's own text is never what is examined
C8_SubtitleIsTextAfterTitle ==
    \A k \in DOMAIN results :
        LET t == TextAfter(soup, title_nodes[k])
        IN results[k].subtitle =
              IF looks_like_subtitle(t, pg_site.section) THEN t ELSE ""

\* C9: every scanned element whose text is a title has exactly one retained
\* title node on its ancestor/descendant chain
C9_OneTitleNodePerChain ==
    pg_pc \in {"emit", "returned"} =>
        LET scanned == find_all(soup, select_content(soup), SCANNED)
        IN \A e \in DOMAIN scanned :
              is_title_el(soup, pg_site.section, scanned[e]) =>
                  Cardinality({k \in DOMAIN title_nodes :
                      \/ title_nodes[k] = scanned[e]
                      \/ IsAncestor(soup, scanned[e], title_nodes[k])
                      \/ IsAncestor(soup, title_nodes[k], scanned[e])}) = 1

(***************************************************************************)
(* The Filename Token Deriver applied to one title.                        *)
(***************************************************************************)
TokenTitles ==
    {TitleText(s, k, st) : s \in {"Major Arcana", "Wands", "Cups"},
                           k \in DOMAIN RANKS, st \in Styles}

TokInit ==
    /\ tok_pc = "call"
    /\ tok_title \in TokenTitles
    /\ tok_suit \in SectionSet
    /\ tok_out = <<>>
    /\ PageIdle /\ RsIdle /\ MainIdle

DeriveTokens ==
    /\ tok_pc = "call"
    /\ tok_out' = card_filename_tokens(tok_title, tok_suit)
    /\ tok_pc' = "returned"
    /\ UNCHANGED <<tok_title, tok_suit, pageVars, rsVars, mainVars>>

TokNext == DeriveTokens

SpecTokens == TokInit /\ [][TokNext]_vars

\* C4 (as stated): "Ace of Wands" in section "Wands" yields both "aceofwands"
\* and "1ofwands"
C4_AceHasNumericToken ==
    (tok_pc = "returned" /\ tok_title = "Ace of Wands" /\ tok_suit = "Wands")
        => /\ \E k \in DOMAIN tok_out : tok_out[k] = "aceofwands"
           /\ \E k \in DOMAIN tok_out : tok_out[k] = "1ofwands"

\* C4 (amended): "Ace of Wands" in section "Wands" yields "aceofwands" and no
\* "1ofwands"; a numeric token "<digits>of<suit>" is emitted exactly for the
\* ranks Two..Ten ("Two of Wands" yields "twoofwands" and "2ofwands")
C4_AceTokens ==
    /\ (tok_pc = "returned" /\ tok_title = "Ace of Wands" /\ tok_suit = "Wands")
        => /\ \E k \in DOMAIN tok_out : tok_out[k] = "aceofwands"
           /\ \A k \in DOMAIN tok_out : tok_out[k] # "1ofwands"
    /\ (tok_pc = "returned" /\ tok_title = "Two of Wands" /\ tok_suit = "Wands")
        => tok_out = <<"twoofwands", "2ofwands">>


C4_Witness ==
    /\ tok_pc = "returned" /\ tok_title = "Ace of Wands" /\ tok_suit = "Wands"
    /\ tok_out = <<"aceofwands">>

(***************************************************************************)
(* One call of nearest_card_image_url on a region that holds two images.   *)
(***************************************************************************)
Arrangements == {"same_before", "same_after", "around", "both_before"}

\* the body of the region (node 3) for an arrangement of the images u1, u2
\* around the title; the second component is the position of the title element
Arranged(arr, u1, u2, title) ==
    CASE arr = "same_before" ->
           <<<<Node("div", 3), Img(4, u1), Img(4, u2), Node("h2", 3), Text(7, title),
               Node("p", 3), Text(9, "About the card.")>>, 7>>
      [] arr = "same_after" ->
           <<<<Node("h2", 3), Text(4, title), Node("div", 3), Img(6, u1), Img(6, u2)>>, 4>>
      [] arr = "around" ->
           <<<<Node("div", 3), Img(4, u1), Node("h2", 3), Text(6, title), Node("p", 3),
               Text(8, "About the card."), Node("div", 3), Img(10, u2)>>, 6>>
      [] arr = "both_before" ->
           <<<<Node("div", 3), Img(4, u1), Node("div", 3), Img(6, u2), Node("h2", 3),
               Text(8, title)>>, 8>>

RegionPage(body) ==
    Tree(<<Node("html", 0), Node("body", 1), Node("main", 2)>> \o body)

ImageUrls ==
    {"/art/AceOfWands.jpg", "/art/banner.png", "/images/card-01",
     "/art/TwoOfWands_forWeb.jpg", "/art/TheFool.jpg", "//cdn.site/2ofwands.webp?v=3"}

ResolverTitles ==
    {<<"Ace of Wands", "Wands">>, <<"Two of Wands", "Wands">>,
     <<"The Fool", "Major Arcana">>}

RsInit ==
    /\ rs_pc = "call"
    /\ \E arr \in Arrangements, u1 \in ImageUrls, u2 \in ImageUrls, t \in ResolverTitles :
          /\ u1 # u2
          /\ rs_page = RegionPage(Arranged(arr, u1, u2, t[1])[1])
          /\ rs_el = Arranged(arr, u1, u2, t[1])[2]
          /\ rs_text = t[1]
          /\ rs_suit = t[2]
    /\ rs_out = ""
    /\ TokIdle /\ PageIdle /\ MainIdle

ResolveImage ==
    /\ rs_pc = "call"
    /\ rs_out' = nearest_card_image_url(rs_page, rs_el, rs_text, rs_suit)
    /\ rs_pc' = "returned"
    /\ UNCHANGED <<rs_page, rs_el, rs_text, rs_suit, tokVars, pageVars, mainVars>>

RsNext == ResolveImage

SpecResolver == RsInit /\ [][RsNext]_vars

RsCands == candidates_of(rs_page, rs_el)
RsTitleIdx == title_index(rs_page, rs_el)
RsHasToken(u) ==
    LET toks == card_filename_tokens(rs_text, rs_suit)
    IN \E k \in DOMAIN toks : Contains(str_lower(u), toks[k])
RsDistance(c) ==
    IF c.idx >= RsTitleIdx THEN c.idx - RsTitleIdx ELSE RsTitleIdx - c.idx
\* the resolver returned, for two candidates of which exactly one has a token
RsTwoCandidates ==
    /\ rs_pc = "returned"
    /\ Len(RsCands) = 2
    /\ RsHasToken(RsCands[1].url) # RsHasToken(RsCands[2].url)
RsTokenUrl ==
    IF RsHasToken(RsCands[1].url) THEN RsCands[1].url ELSE RsCands[2].url

\* C5 (as stated): of two candidates at the same distance from the title, one
\* with a filename token of the title and one without, the one with the token
\* is returned
C5_EquidistantTokenWins ==
    (RsTwoCandidates /\ RsDistance(RsCands[1]) = RsDistance(RsCands[2]))
        => rs_out = RsTokenUrl

\* C5 (amended): of two candidates recorded at the same position, one with a
\* filename token and one without, the one with the token is returned; of two
\* at the same distance on either side of the title, the one before the title
\* is returned, whichever has the token
C5_SamePositionTokenWins ==
    /\ (RsTwoCandidates /\ RsCands[1].idx = RsCands[2].idx) => rs_out = RsTokenUrl
    /\ (/\ RsTwoCandidates
        /\ RsDistance(RsCands[1]) = RsDistance(RsCands[2])
        /\ RsCands[1].idx # RsCands[2].idx)
          => \E k \in 1..2 : RsCands[k].idx < RsTitleIdx /\ rs_out = RsCands[k].url

\* both candidates at one position, and the one harvested second has the token
C5_Witness ==
    /\ RsTwoCandidates
    /\ RsCands[1].idx = RsCands[2].idx
    /\ RsHasToken(RsCands[2].url)
    /\ rs_out = RsCands[2].url

(***************************************************************************)
(* Pipeline Driver.                                                        *)
(***************************************************************************)
DELAY_SEC == 1

order_key(suit_arcana) == (CHOOSE k \in DOMAIN Sections : Sections[k] = suit_arcana) - 1

\* num_map.get(m.group(1), 99) if m else 99, for the match m of the rank at
\* the start of the card name: num_map numbers the ranks as RANKS lists them
rank_key(k) == IF k = 0 THEN 99 ELSE k

sort_key(r) ==
    IF r.suit_arcana = "Major Arcana"
    THEN <<order_key(r.suit_arcana), 0>>
    ELSE <<order_key(r.suit_arcana), rank_key(RankAt(r.card, FALSE))>>

\* r put behind the rows of a sorted list whose key is not greater than its own
insert_stable(sorted, r) ==
    LET after == {k \in DOMAIN sorted : ~TupleLess(sort_key(r), sort_key(sorted[k]))}
        n == Cardinality(after)
    IN SubSeq(sorted, 1, n) \o <<r>> \o SubSeq(sorted, n + 1, Len(sorted))

\* rows.sort(key=sort_key): a stable sort
RECURSIVE sort_rows(_)
sort_rows(rs) ==
    IF rs = <<>> THEN <<>>
    ELSE insert_stable(sort_rows(SubSeq(rs, 1, Len(rs) - 1)), rs[Len(rs)])

fieldnames == <<"suit_arcana", "card", "subtitle", "description", "image_url", "page_url">>

\* the row DictWriter writes for a record
csv_row(r) == [k \in DOMAIN fieldnames |-> r[fieldnames[k]]]

\* what a section page may serve in a run of the driver
MainSites(s) ==
    Sites({s}, {"main"}, {"wrap"}, {"canon", "lower"}, {MaxBlocks}, {"desc"})
    \cup Sites({s}, {"main"}, {"flat"}, {"canon"}, {0}, {"asc"})

MainInit ==
    /\ pc = "loop"
    /\ sec_i = 1
    /\ rows = <<>>
    /\ log = <<>>
    /\ clock = 0
    /\ fetch_at = <<>>
    /\ served = [s \in SectionSet |-> NoSite]
    /\ outcome = [s \in SectionSet |-> "pending"]
    /\ csv = <<>>
    /\ TokIdle /\ PageIdle /\ RsIdle

\* an except clause that ends the loop; the driver must differ under it
after_failure_break(i) == Len(Sections) + 1

\* the except clause: the loop goes on with the next section
after_failure(i) == i + 1

\* rows.extend(...)
extended(old, recs) == old \o recs

\* an iteration whose parse_card_page call returns: fetch, parse, warn when
\* nothing was parsed, sleep, extend
SectionOk ==
    /\ pc = "loop" /\ sec_i <= Len(Sections)
    /\ \E site \in MainSites(Sections[sec_i]) :
          LET s == Sections[sec_i]
              recs == parse_card_page(s, MakePage(site))
          IN /\ served' = [served EXCEPT ![s] = site]
             /\ outcome' = [outcome EXCEPT ![s] = "ok"]
             /\ rows' = extended(rows, recs)
             /\ log' = log \o <<<<"Scraping", s>>>>
                           \o (IF recs = <<>> THEN <<<<"warn", s>>>> ELSE <<>>)
    /\ fetch_at' = Append(fetch_at, clock)
    /\ clock' = clock + DELAY_SEC
    /\ sec_i' = sec_i + 1
    /\ UNCHANGED <<pc, csv, tokVars, pageVars, rsVars>>

\* an iteration whose get_soup call raises (the request fails, the status is
\* an error): parse_card_page is left before its sleep, main prints the error
SectionFail ==
    /\ pc = "loop" /\ sec_i <= Len(Sections)
    /\ outcome' = [outcome EXCEPT ![Sections[sec_i]] = "error"]
    /\ log' = log \o <<<<"Scraping", Sections[sec_i]>>, <<"error", Sections[sec_i]>>>>
    /\ fetch_at' = Append(fetch_at, clock)
    /\ sec_i' = after_failure(sec_i)
    /\ UNCHANGED <<pc, rows, clock, served, csv, tokVars, pageVars, rsVars>>

\* the loop is over: "Collected n cards."
Collected ==
    /\ pc = "loop" /\ sec_i > Len(Sections)
    /\ log' = Append(log, <<"Collected", Len(rows)>>)
    /\ pc' = "sort"
    /\ UNCHANGED <<sec_i, rows, clock, fetch_at, served, outcome, csv,
                   tokVars, pageVars, rsVars>>

SortRows ==
    /\ pc = "sort"
    /\ rows' = sort_rows(rows)
    /\ pc' = "write"
    /\ UNCHANGED <<sec_i, log, clock, fetch_at, served, outcome, csv,
                   tokVars, pageVars, rsVars>>

WriteCsv ==
    /\ pc = "write"
    /\ csv' = [k \in DOMAIN rows |-> csv_row(rows[k])]
    /\ log' = Append(log, <<"Wrote", "this_might_hurt_tarot.csv">>)
    /\ pc' = "written"
    /\ UNCHANGED <<sec_i, rows, clock, fetch_at, served, outcome,
                   tokVars, pageVars, rsVars>>

Next == SectionOk \/ SectionFail \/ Collected \/ SortRows \/ WriteCsv

Spec == MainInit /\ [][Next]_vars

(***************************************************************************)
(* Properties of the driver.                                               *)
(***************************************************************************)
\* the sections whose "Scraping ..." line was printed, in order
Attempted ==
    LET lines == SelectSeq(log, LAMBDA e : e[1] = "Scraping")
    IN [k \in DOMAIN lines |-> lines[k][2]]

RowsOfSection(s) == SelectSeq(csv, LAMBDA row : row[1] = s)

\* C1: a failing section never aborts the run: the five sections are attempted
\* once each in the fixed order whatever subset fails, a failed section
\* contributes no row, and every record a section returned is in the export
C1_FailureNeverAborts ==
    /\ pc = "loop" => Attempted = SubSeq(Sections, 1, sec_i - 1)
    /\ pc # "loop" => Attempted = Sections
    /\ pc = "written" =>
          \A s \in SectionSet :
              IF outcome[s] = "error"
              THEN RowsOfSection(s) = <<>>
              ELSE LET recs == parse_card_page(s, MakePage(served[s]))
                   IN /\ Len(RowsOfSection(s)) = Len(recs)
                      /\ \A k \in DOMAIN recs :
                            \E r \in DOMAIN csv : csv[r] = csv_row(recs[k])

\* the first, third and last sections failed, the other two are in the export
C1_Witness ==
    /\ pc = "written"
    /\ outcome["Major Arcana"] = "error" /\ outcome["Cups"] = "error"
    /\ outcome["Pentacles"] = "error"
    /\ Len(RowsOfSection("Wands")) = MaxBlocks
    /\ Len(RowsOfSection("Swords")) = MaxBlocks
    /\ Len(csv) = 2 * MaxBlocks

\* C3: after the sort, rows whose card matches the title pattern of their
\* section are in section order and, within a suit, in rank order Ace..King
C3_SortedBySectionThenRank ==
    pc \in {"write", "written"} =>
        \A i \in DOMAIN rows : \A j \in DOMAIN rows :
            (/\ i < j
             /\ title_regex_for(rows[i].suit_arcana, rows[i].card)
             /\ title_regex_for(rows[j].suit_arcana, rows[j].card))
                => \/ order_key(rows[i].suit_arcana) < order_key(rows[j].suit_arcana)
                   \/ /\ rows[i].suit_arcana = rows[j].suit_arcana
                      /\ rows[i].suit_arcana # "Major Arcana"
                            => RankAt(rows[i].card, TRUE) <= RankAt(rows[j].card, TRUE)

\* C10: between one page fetch and the next the fixed delay always elapses
C10_DelayBetweenFetches ==
    \A k \in 1..(Len(fetch_at) - 1) : fetch_at[k + 1] - fetch_at[k] >= DELAY_SEC

====
